---- MODULE Spec2Model ----
(***************************************************************************)
(* A model of graphite-cli's stacked-branch core:                          *)
(*   - the commit actions (src/actions/commit_amend.ts and the commit      *)
(*     create action of src/unnamed/part_000),                             *)
(*   - the PR reconciliation of src/actions/submit/prepare_branches.ts,    *)
(*   - the stack builder of src/wrapper-classes/abstract_stack_builder.ts. *)
(* One command runs per behaviour (a process-wide lock serialises runs),   *)
(* so each command has its own specification over the shared repository    *)
(* state: SpecCommit, SpecSubmit and SpecStack; SpecExpand runs the        *)
(* worklist loop of the stack builder one turn at a time.                  *)
(***************************************************************************)
EXTENDS Integers, Sequences, FiniteSets, TLC

VARIABLES
  (* repository / metadata store *)
  parent,        \* branch -> parent branch, or NoBranch (untracked, trunk)
  ignored,       \* repoConfig.getIgnoreBranches()
  currentBranch, \* the checked-out branch, or NoBranch (detached HEAD)
  staged,        \* the index holds a change
  unstaged,      \* the working tree holds a change that is not staged
  rev,           \* branch -> revision counter (changes on commit and rebase)
  prInfo,        \* branch -> stored PR info (number, base, isDraft, title, body)
  (* the running command *)
  cmd,           \* "amend" | "create" | "submit" | "stack"
  opts,          \* the options of the command
  interactive,   \* context.interactive
  stdoutIsTTY,   \* process.stdout is a terminal (it has moveCursor and clearLine)
  pc,            \* position of the single control flow
  error,         \* name of the error the run ended with, or "none"
  failedAt,      \* the call that raised it, or "none"
  log,           \* the effects performed so far, in order
  restackQueue,  \* branches restackBranches still has to rebase
  start,         \* the index and the store as the run found them
  (* the submit command *)
  idx,           \* index of the branch / action being processed
  prActions,     \* the actions gathered by the first loop
  submissionInfo,\* the plan built by the second loop
  submitInfo,    \* the local submitInfo object of getPRCreationInfo
  last,          \* the locals of the getPRAction call made last
  entry,         \* the part of the plan entry read before getPRCreationInfo
  (* the stack builder *)
  request,       \* the builder operation requested and its branch
  result,        \* what the builder returned
  arena,         \* the stackNodeT objects created so far by the running expansion
  worklist,      \* its local `nodes`: arena indexes still to expand
  expanded       \* the arena indexes it popped and expanded, in order

vars == <<parent, ignored, currentBranch, staged, unstaged, rev, prInfo,
          cmd, opts, interactive, stdoutIsTTY, pc, error, failedAt, log, restackQueue,
          start, idx, prActions, submissionInfo, submitInfo, last, entry,
          request, result, arena, worklist, expanded>>

repoVars   == <<parent, ignored, currentBranch, staged, unstaged, rev, prInfo>>
submitVars == <<idx, prActions, submissionInfo, submitInfo, last, entry>>
stackVars  == <<request, result, arena, worklist, expanded>>

(***************************************************************************)
(* Bounds and names                                                        *)
(***************************************************************************)
NumBranches == 3

Trunk == 0
NoBranch == -1

NonTrunk == 1..NumBranches
Branch == {Trunk} \cup NonTrunk

\* A value that is absent (undefined): a string or flag field, a PR number.
NoVal == "undefined"
NoNumber == NoBranch

(***************************************************************************)
(* Sequences helpers                                                       *)
(***************************************************************************)
RECURSIVE SortedSeq(_)
SortedSeq(S) ==
  IF S = {} THEN <<>>
  ELSE LET m == CHOOSE x \in S : \A y \in S : x <= y
       IN <<m>> \o SortedSeq(S \ {m})

Range(s) == {s[i] : i \in 1..Len(s)}

Ops(l) == [i \in 1..Len(l) |-> l[i].op]

Count(l, o) == Cardinality({i \in 1..Len(l) : l[i].op = o})

(***************************************************************************)
(* Metadata store (context.metaCache), modelled from its contract          *)
(***************************************************************************)
\* Branches whose parent is b, in name order.
ChildrenOf(p, b) == SortedSeq({c \in NonTrunk : p[c] = b})

RECURSIVE FlattenUp(_, _)
\* b followed by its descendants, every parent before its children.
FlattenUp(p, b) ==
  LET kids == ChildrenOf(p, b)
      F[i \in 0..Len(kids)] ==
        IF i = 0 THEN <<>> ELSE F[i - 1] \o FlattenUp(p, kids[i])
  IN <<b>> \o F[Len(kids)]

\* getRelativeStack(b, scope), for the upstack scopes.
getRelativeStack(p, b, scope) ==
  IF scope = "UPSTACK_EXCLUSIVE" THEN Tail(FlattenUp(p, b)) ELSE FlattenUp(p, b)

\* ensureSomeStagedChangesPrecondition: TRUE when it returns, FALSE when it
\* throws PreconditionsFailedError.
ensureSomeStagedChangesPrecondition(st) == st

\* metaCache.addAll(): every pending change becomes staged.
addAllStaged(st, un) == st \/ un

\* Acyclic parent maps: following parent links from any branch ends.
RECURSIVE Reaches(_, _, _, _)
Reaches(p, b, target, fuel) ==
  IF b = NoBranch THEN FALSE
  ELSE IF b = target THEN TRUE
  ELSE IF fuel = 0 THEN FALSE
  ELSE Reaches(p, p[b], target, fuel - 1)

Acyclic(p) == \A b \in NonTrunk : ~Reaches(p, p[b], b, NumBranches)

ParentMaps ==
  {p \in [Branch -> Branch \cup {NoBranch}] :
     p[Trunk] = NoBranch /\ Acyclic(p)}

\* Parent maps in which every branch but the trunk is tracked.
TrackedParentMaps == {p \in ParentMaps : \A b \in NonTrunk : p[b] # NoBranch}

(***************************************************************************)
(* Idle values of the variables a command does not use                     *)
(***************************************************************************)
\* isDraft is "true", "false" or NoVal; base a branch or NoBranch.
EmptyPrInfo ==
  [number |-> NoNumber, base |-> NoBranch, isDraft |-> NoVal,
   title |-> NoVal, body |-> NoVal]

NoLast ==
  [branch |-> NoBranch, calculated |-> "none", status |-> "none",
   asked |-> FALSE, answer |-> FALSE, matches |-> TRUE, prNumber |-> NoNumber]

NoEntry == [head |-> NoBranch, headSha |-> 0, base |-> NoBranch, baseSha |-> 0]

NoRequest == [op |-> "none", branch |-> NoBranch]

SubmitIdle ==
  /\ idx = 0
  /\ prActions = <<>>
  /\ submissionInfo = <<>>
  /\ submitInfo = [title |-> NoVal, body |-> NoVal]
  /\ last = NoLast
  /\ entry = NoEntry

StackIdle ==
  /\ request = NoRequest
  /\ result = [kind |-> "none"]
  /\ arena = <<>>
  /\ worklist = <<>>
  /\ expanded = <<>>

Event(o, a) == [op |-> o, arg |-> a]

(***************************************************************************)
(* Commit actions: commitAmendAction and commitCreateAction                *)
(***************************************************************************)
InitCommit ==
  /\ parent \in TrackedParentMaps
  /\ ignored = {}
  /\ currentBranch \in Branch \cup {NoBranch}
  /\ staged \in BOOLEAN
  /\ unstaged \in BOOLEAN
  /\ rev = [b \in Branch |-> 0]
  /\ prInfo = [b \in Branch |-> EmptyPrInfo]
  /\ \/ /\ cmd = "amend"
        /\ opts \in [addAll : BOOLEAN, noEdit : BOOLEAN, patch : BOOLEAN]
        /\ pc = "amend_addAll"
     \/ /\ cmd = "create"
        /\ opts \in [addAll : BOOLEAN, patch : BOOLEAN]
        /\ pc = "create_addAll"
  /\ interactive \in BOOLEAN
  /\ stdoutIsTTY = TRUE
  /\ error = "none"
  /\ failedAt = "none"
  /\ log = <<>>
  /\ restackQueue = <<>>
  /\ start = [staged |-> staged, unstaged |-> unstaged, prInfo |-> prInfo]
  /\ SubmitIdle
  /\ StackIdle

RebaseConflictErrorAsExitFailed == "ExitFailed"

\* errors.ts 10-15: the error class of a rebase conflict; the other classes
\* raised in these runs are ExitFailedError (3-8), PreconditionsFailedError
\* (17-22) and KilledError (68-73).
RebaseConflictError == "RebaseConflict"

OtherFailureKinds == {"ExitFailed", "PreconditionsFailed", "Killed"}

\* A throw: the run ends with error e raised by call.
Throw(e, call) ==
  /\ pc' = "failed"
  /\ error' = e
  /\ failedAt' = call

NoThrow == UNCHANGED <<error, failedAt>>

\* if (opts.addAll) context.metaCache.addAll();
StageAllStep(next) ==
  /\ IF opts.addAll
       THEN /\ staged' = addAllStaged(staged, unstaged)
            /\ unstaged' = FALSE
            /\ log' = Append(log, Event("addAll", NoVal))
       ELSE UNCHANGED <<staged, unstaged, log>>
  /\ pc' = next
  /\ NoThrow
  /\ UNCHANGED <<parent, ignored, currentBranch, rev, prInfo, cmd, opts,
                 interactive, stdoutIsTTY, restackQueue, start, submitVars, stackVars>>

\* ensureSomeStagedChangesPrecondition(context), when `needed`.
EnsureStagedStep(needed, next) ==
  /\ IF needed /\ ~ensureSomeStagedChangesPrecondition(staged)
       THEN Throw("PreconditionsFailed", "ensureSomeStagedChangesPrecondition")
       ELSE pc' = next /\ NoThrow
  /\ UNCHANGED <<repoVars, cmd, opts, interactive, stdoutIsTTY, log, restackQueue, start,
                 submitVars, stackVars>>

\* context.metaCache.commit(args): the gateway commits the index on the
\* checked-out branch, or reports a failure.
CommitStep(args, next) ==
  /\ \/ /\ rev' = [b \in Branch |->
                     IF b = currentBranch THEN rev[b] + 1 ELSE rev[b]]
        /\ staged' = FALSE
        /\ log' = Append(log, Event("commit", args))
        /\ pc' = next
        /\ NoThrow
     \/ /\ Throw("ExitFailed", "commit")
        /\ UNCHANGED <<rev, staged, log>>
  /\ UNCHANGED <<parent, ignored, currentBranch, unstaged, prInfo, cmd, opts,
                 interactive, stdoutIsTTY, restackQueue, start, submitVars, stackVars>>

\* restackBranches(getRelativeStack(currentBranchPrecondition, scope), context):
\* the arguments are evaluated first, then the engine is entered.
RestackCallStep(scope) ==
  /\ IF currentBranch = NoBranch
       THEN /\ Throw("PreconditionsFailed", "currentBranchPrecondition")
            /\ UNCHANGED <<log, restackQueue>>
       ELSE /\ restackQueue' = getRelativeStack(parent, currentBranch, scope)
            /\ log' = Append(log, Event("restackBranches",
                          getRelativeStack(parent, currentBranch, scope)))
            /\ pc' = "restacking"
            /\ NoThrow
  /\ UNCHANGED <<repoVars, cmd, opts, interactive, stdoutIsTTY, start, submitVars,
                 stackVars>>

\* commit_amend.ts 15-17
AmendAddAll == pc = "amend_addAll" /\ StageAllStep("amend_ensure")

AmendEnsureSkipped ==
  pc = "amend_ensure" /\ EnsureStagedStep(FALSE, "amend_commit")

\* commit_amend.ts 19-21
AmendEnsure == pc = "amend_ensure" /\ EnsureStagedStep(opts.noEdit, "amend_commit")

\* commit_amend.ts 23-28
AmendCommit ==
  /\ pc = "amend_commit"
  /\ CommitStep([amend |-> TRUE, noEdit |-> opts.noEdit,
                 patch |-> ~opts.addAll /\ opts.patch], "amend_tip")

AmendTipAlways ==
  /\ pc = "amend_tip"
  /\ log' = Append(log, Event("tip", NoVal))
  /\ pc' = "amend_restack"
  /\ NoThrow
  /\ UNCHANGED <<repoVars, cmd, opts, interactive, stdoutIsTTY, restackQueue, start,
                 submitVars, stackVars>>

\* commit_amend.ts 30-34
AmendTip ==
  /\ pc = "amend_tip"
  /\ log' = IF ~opts.noEdit THEN Append(log, Event("tip", NoVal)) ELSE log
  /\ pc' = "amend_restack"
  /\ NoThrow
  /\ UNCHANGED <<repoVars, cmd, opts, interactive, stdoutIsTTY, restackQueue, start,
                 submitVars, stackVars>>

AmendRestackInclusive ==
  pc = "amend_restack" /\ RestackCallStep("UPSTACK_INCLUSIVE")

\* commit_amend.ts 36-42
AmendRestack ==
  pc = "amend_restack" /\ RestackCallStep("UPSTACK_EXCLUSIVE")

CreateAddAllAlways ==
  /\ pc = "create_addAll"
  /\ staged' = addAllStaged(staged, unstaged)
  /\ unstaged' = FALSE
  /\ log' = Append(log, Event("addAll", NoVal))
  /\ pc' = "create_ensure"
  /\ NoThrow
  /\ UNCHANGED <<parent, ignored, currentBranch, rev, prInfo, cmd, opts,
                 interactive, stdoutIsTTY, restackQueue, start, submitVars, stackVars>>

\* part_000 14-16
CreateAddAll == pc = "create_addAll" /\ StageAllStep("create_ensure")

CreateEnsureSkipped ==
  pc = "create_ensure" /\ EnsureStagedStep(FALSE, "create_commit")

\* part_000 18
CreateEnsure == pc = "create_ensure" /\ EnsureStagedStep(TRUE, "create_commit")

\* part_000 19-22
CreateCommit ==
  /\ pc = "create_commit"
  /\ CommitStep([amend |-> FALSE, noEdit |-> FALSE,
                 patch |-> ~opts.addAll /\ opts.patch], "create_restack")

\* part_000 24-30
CreateRestack ==
  pc = "create_restack" /\ RestackCallStep("UPSTACK_EXCLUSIVE")

\* restackBranches: rebases the branches in order, each onto its parent; the
\* gateway reports success or a conflict, and a conflict stops the engine.
RestackBranch ==
  /\ pc = "restacking"
  /\ IF restackQueue = <<>>
       THEN /\ pc' = "done"
            /\ NoThrow
            /\ UNCHANGED <<rev, log, restackQueue>>
       ELSE \/ /\ rev' = [rev EXCEPT ![Head(restackQueue)] = @ + 1]
               /\ log' = Append(log, Event("rebase", Head(restackQueue)))
               /\ restackQueue' = Tail(restackQueue)
               /\ pc' = "restacking"
               /\ NoThrow
            \/ /\ Throw(RebaseConflictError, "restackBranches")
               /\ log' = Append(log, Event("conflict", Head(restackQueue)))
               /\ UNCHANGED <<rev, restackQueue>>
  /\ UNCHANGED <<parent, ignored, currentBranch, staged, unstaged, prInfo,
                 cmd, opts, interactive, stdoutIsTTY, start, submitVars, stackVars>>

NextCommit ==
  \/ AmendAddAll
  \/ AmendEnsure
  \/ AmendCommit
  \/ AmendTip
  \/ AmendRestack
  \/ CreateAddAll
  \/ CreateEnsure
  \/ CreateCommit
  \/ CreateRestack
  \/ RestackBranch

SpecCommit == InitCommit /\ [][NextCommit]_vars

(***************************************************************************)
(* Claims about the commit actions (checked under SpecCommit)              *)
(***************************************************************************)
Did(o) == \E i \in 1..Len(log) : log[i].op = o

\* Some change is staged once the optional stage-all has run, judged on the
\* index and working tree the run found.
StagedAfterStageAll == start.staged \/ (opts.addAll /\ start.unstaged)

PastEnsure == pc \notin {"amend_addAll", "amend_ensure",
                         "create_addAll", "create_ensure"}

FailedStagedPrecondition ==
  /\ pc = "failed"
  /\ error = "PreconditionsFailed"
  /\ failedAt = "ensureSomeStagedChangesPrecondition"

\* C2: commitAmendAction with noEdit=true and nothing staged after the
\* optional stage-all ends with PreconditionsFailed, and neither the commit
\* nor the restack is ever invoked in that run.
C2_AmendNoEditNothingStagedFails ==
  (cmd = "amend" /\ opts.noEdit /\ ~StagedAfterStageAll) =>
     /\ ~Did("commit")
     /\ ~Did("restackBranches")
     /\ ~Did("rebase")
     /\ PastEnsure => FailedStagedPrecondition

C2_Witness ==
  /\ cmd = "amend" /\ opts.noEdit /\ opts.addAll /\ ~StagedAfterStageAll
  /\ FailedStagedPrecondition
  /\ Did("addAll")

\* C4: in both commit actions the restack is invoked at most once, only after
\* a commit that succeeded, on exactly getRelativeStack(current,
\* UPSTACK_EXCLUSIVE); a run that gets through invokes it exactly once, and a
\* run whose precondition check or commit fails invokes none.
C4_RestackAfterCommitOnce ==
  cmd \in {"amend", "create"} =>
     /\ Count(log, "restackBranches") <= 1
     /\ \A i \in 1..Len(log) :
          log[i].op = "restackBranches" =>
             /\ \E j \in 1..(i - 1) : log[j].op = "commit"
             /\ currentBranch # NoBranch
             /\ log[i].arg = getRelativeStack(parent, currentBranch, "UPSTACK_EXCLUSIVE")
             /\ \A k \in 1..Len(log[i].arg) :
                  /\ log[i].arg[k] # currentBranch
                  /\ Reaches(parent, log[i].arg[k], currentBranch, NumBranches)
             /\ \A b \in NonTrunk :
                  (b # currentBranch /\ Reaches(parent, b, currentBranch, NumBranches))
                     => b \in Range(log[i].arg)
     /\ \A i \in 1..Len(log) :
          log[i].op \in {"rebase", "conflict"} =>
             \E j \in 1..(i - 1) : log[j].op = "restackBranches"
     /\ pc \in {"restacking", "done"} => Count(log, "restackBranches") = 1
     /\ (pc = "failed" /\ failedAt \in {"ensureSomeStagedChangesPrecondition",
                                        "currentBranchPrecondition", "commit"})
           => ~Did("restackBranches")

C4_Witness ==
  /\ cmd = "create"
  /\ pc = "done"
  /\ Did("commit")
  /\ \E i \in 1..Len(log) :
       log[i].op = "restackBranches" /\ Len(log[i].arg) >= 2
  /\ Count(log, "rebase") >= 2

\* C5 as claimed: whenever a commit action ends with a precondition error,
\* neither stage-all nor the commit has been performed.
C5_Original ==
  (cmd \in {"amend", "create"} /\ pc = "failed" /\ error = "PreconditionsFailed")
     => (~Did("addAll") /\ ~Did("commit"))

\* C5 as amended: the no-staged-changes failure is raised before the commit
\* and after the stage-all when addAll is set (which then staged nothing: the
\* index and working tree are as the run found them); the no-branch failure
\* is raised only once the commit has been made.
C5_PreconditionOrder ==
  cmd \in {"amend", "create"} =>
     /\ FailedStagedPrecondition =>
          /\ ~Did("commit")
          /\ Did("addAll") <=> opts.addAll
          /\ staged = start.staged
          /\ unstaged = start.unstaged
          /\ rev = [b \in Branch |-> 0]
     /\ (pc = "failed" /\ failedAt = "currentBranchPrecondition") =>
          /\ error = "PreconditionsFailed"
          /\ Did("commit")
          /\ ~Did("restackBranches")

C5_Witness ==
  /\ cmd = "create"
  /\ opts.addAll
  /\ FailedStagedPrecondition
  /\ Did("addAll")

\* C6 as claimed: commit create, and commit amend with any value of noEdit,
\* fail with the precondition error and make no commit when nothing is staged
\* after the optional stage-all.
C6_Original ==
  (cmd \in {"amend", "create"} /\ ~StagedAfterStageAll) =>
     /\ ~Did("commit")
     /\ PastEnsure => FailedStagedPrecondition

\* C6 as amended: commit create, and commit amend with noEdit=true, fail with
\* the precondition error and make no commit when nothing is staged after the
\* optional stage-all; commit amend with noEdit=false makes no such check and
\* goes on to the commit.
C6_StagedEnforcedUnlessEditing ==
  /\ (cmd = "create" /\ ~StagedAfterStageAll) =>
        /\ ~Did("commit")
        /\ PastEnsure => FailedStagedPrecondition
  /\ (cmd = "amend" /\ opts.noEdit /\ ~StagedAfterStageAll) =>
        /\ ~Did("commit")
        /\ PastEnsure => FailedStagedPrecondition
  /\ (cmd = "amend" /\ ~opts.noEdit) =>
        /\ failedAt # "ensureSomeStagedChangesPrecondition"
        /\ PastEnsure => (pc = "amend_commit" \/ Did("commit") \/ failedAt = "commit")

C6_Witness ==
  /\ cmd = "create"
  /\ ~opts.addAll
  /\ start.unstaged
  /\ ~StagedAfterStageAll
  /\ FailedStagedPrecondition

\* C11: a conflict at the k-th branch of the restacked list stops the engine
\* with the conflict error, which no other failure uses and no other call
\* raises: branches 1..k-1 were rebased once each, in list order, branch k is
\* the one in conflict, branches k+1..n were not touched; the list puts every
\* parent before its children; the commit made before the restack remains
\* and the error ends the commit action.
C11_ConflictStopsRestack ==
  cmd \in {"amend", "create"} =>
     /\ error \notin OtherFailureKinds <=> failedAt \in {"none", "restackBranches"}
     /\ failedAt = "restackBranches" =>
          /\ pc = "failed"
          /\ error \notin OtherFailureKinds \cup {"none"}
          /\ \E i \in 1..Len(log) :
               /\ log[i].op = "restackBranches"
               /\ LET L == log[i].arg
                      k == Len(log) - i
                  IN /\ k \in 1..Len(L)
                     /\ \A j \in 1..(k - 1) : log[i + j] = Event("rebase", L[j])
                     /\ log[i + k] = Event("conflict", L[k])
                     /\ restackQueue = SubSeq(L, k, Len(L))
                     /\ \A j \in 1..Len(L) : rev[L[j]] = IF j < k THEN 1 ELSE 0
                     /\ \A a, b \in 1..Len(L) :
                          (a < b) => ~Reaches(parent, L[a], L[b], NumBranches)
               /\ \E c \in 1..(i - 1) : log[c].op = "commit"
          /\ rev[currentBranch] = 1

C11_Witness ==
  /\ cmd = "amend"
  /\ pc = "failed"
  /\ failedAt = "restackBranches"
  /\ Did("commit")
  /\ Count(log, "rebase") = 1
  /\ Len(restackQueue) = 2
  /\ parent[restackQueue[2]] = restackQueue[1]

RunEnded == pc \in {"done", "failed"}

\* C12 as claimed: the hint is emitted exactly once in a run of commit amend
\* with noEdit=false in an interactive context, and never when noEdit=true,
\* when the context is not interactive, or by commit create.
C12_Original ==
  cmd \in {"amend", "create"} =>
     /\ (cmd = "create" \/ opts.noEdit \/ ~interactive) => ~Did("tip")
     /\ (cmd = "amend" /\ ~opts.noEdit /\ interactive /\ RunEnded)
           => Count(log, "tip") = 1

\* C12 as amended: the hint is emitted at most once, only by commit amend
\* with noEdit=false, after the commit and before the restack, whatever
\* context.interactive is; such a run emits it exactly once when its commit
\* succeeded and not at all when the commit failed; commit create and an
\* amend with noEdit=true never emit it.
C12_TipOnceAfterEditedAmend ==
  cmd \in {"amend", "create"} =>
     /\ Count(log, "tip") <= 1
     /\ (cmd = "create" \/ opts.noEdit) => ~Did("tip")
     /\ \A i \in 1..Len(log) :
          log[i].op = "tip" =>
             /\ cmd = "amend" /\ ~opts.noEdit
             /\ i > 1 /\ log[i - 1].op = "commit"
             /\ \A j \in 1..(i - 1) : log[j].op # "restackBranches"
     /\ (cmd = "amend" /\ ~opts.noEdit /\ Did("commit") /\ pc # "amend_tip")
           => Count(log, "tip") = 1
     /\ (pc = "failed" /\ failedAt = "commit") => ~Did("tip")

C12_Witness ==
  /\ cmd = "amend"
  /\ ~opts.noEdit
  /\ ~interactive
  /\ pc = "done"
  /\ Count(log, "tip") = 1
  /\ Did("rebase")

(***************************************************************************)
(* Stack builder: AbstractStackBuilder                                     *)
(*                                                                         *)
(* A Stack is [source, nodes]: nodes is the arena of its stackNodeT        *)
(* objects, a node's parents and children are sequences of arena indexes,  *)
(* and source is the index of the source node.                             *)
(***************************************************************************)
\* The hooks the subclasses supply, modelled from the data model: a branch's
\* children are the tracked (not ignored) branches whose parent it is, and
\* its stack base is the ancestor closest to the trunk.
getChildrenForBranch(p, ign, b) ==
  SortedSeq({c \in NonTrunk : p[c] = b /\ c \notin ign})

RECURSIVE getStackBaseBranch(_, _)
getStackBaseBranch(p, b) ==
  IF p[b] = NoBranch \/ p[b] = Trunk THEN b ELSE getStackBaseBranch(p, p[b])

\* Branch.allBranches(): every branch of the repository, in name order.
allBranches == SortedSeq(Branch)

Node(b, ps, cs) == [branch |-> b, parents |-> ps, children |-> cs]

RECURSIVE ExpandUnlinked(_, _, _, _)
ExpandUnlinked(p, ign, nodes, work) ==
  IF work = <<>> THEN nodes
  ELSE LET cur  == work[Len(work)]
           rest == SubSeq(work, 1, Len(work) - 1)
           kids == SortedSeq({c \in NonTrunk : p[c] = nodes[cur].branch /\ c \notin ign})
           ids  == [i \in 1..Len(kids) |-> Len(nodes) + i]
           made == [i \in 1..Len(kids) |-> [branch |-> kids[i], parents |-> <<>>,
                                            children |-> <<>>]]
           upd  == [nodes EXCEPT ![cur].children = ids]
       IN ExpandUnlinked(p, ign, upd \o made, rest \o ids)

RECURSIVE Expand(_, _, _, _)
\* The do-while loop of upstackInclusiveFromBranchWithoutParents: nodes is the
\* arena built so far, work the `nodes` worklist (popped from its end).
Expand(p, ign, nodes, work) ==
  IF work = <<>> THEN nodes
  ELSE LET cur  == work[Len(work)]
           rest == SubSeq(work, 1, Len(work) - 1)
           kids == getChildrenForBranch(p, ign, nodes[cur].branch)
           ids  == [i \in 1..Len(kids) |-> Len(nodes) + i]
           made == [i \in 1..Len(kids) |-> Node(kids[i], <<cur>>, <<>>)]
           upd  == [nodes EXCEPT ![cur].children = ids]
       IN Expand(p, ign, upd \o made, rest \o ids)

upstackInclusiveFromBranchWithoutParents(p, ign, b) ==
  [source |-> 1, nodes |-> Expand(p, ign, <<Node(b, <<>>, <<>>)>>, <<1>>)]

\* fullStackFromBranch is abstract: the tree grown from the branch's stack base.
fullStackFromBranch(p, ign, b) ==
  upstackInclusiveFromBranchWithoutParents(p, ign, getStackBaseBranch(p, b))

RECURSIVE FindSource(_, _, _)
\* The while loop of upstackInclusiveFromBranchWithParents: the index of the
\* first node popped whose branch is b, or 0 when the worklist runs empty.
FindSource(stack, work, b) ==
  IF work = <<>> THEN 0
  ELSE LET node == work[Len(work)]
           rest == SubSeq(work, 1, Len(work) - 1)
       IN IF stack.nodes[node].branch = b THEN node
          ELSE FindSource(stack, rest \o stack.nodes[node].children, b)

RECURSIVE VisitOrder(_, _, _)
\* The nodes the same loop pops, in order, up to the match (or to the end).
VisitOrder(stack, work, b) ==
  IF work = <<>> THEN <<>>
  ELSE LET node == work[Len(work)]
           rest == SubSeq(work, 1, Len(work) - 1)
       IN IF stack.nodes[node].branch = b THEN <<node>>
          ELSE <<node>> \o VisitOrder(stack, rest \o stack.nodes[node].children, b)

upstackInclusiveFromBranchWithParentsDetached(p, ign, b) ==
  [kind |-> "stack", stack |-> upstackInclusiveFromBranchWithoutParents(p, ign, b)]

upstackInclusiveFromBranchWithParents(p, ign, b) ==
  LET stack == fullStackFromBranch(p, ign, b)
      found == FindSource(stack, <<stack.source>>, b)
  IN [kind |-> "stack",
      stack |-> IF found # 0 THEN [stack EXCEPT !.source = found] ELSE stack]

RECURSIVE Unique(_)
\* [...new Set(s)]: the first occurrence of every element, in order.
Unique(s) ==
  IF s = <<>> THEN <<>>
  ELSE LET init == Unique(SubSeq(s, 1, Len(s) - 1))
           final == s[Len(s)]
       IN IF final \in Range(init) THEN init ELSE Append(init, final)

allStackBaseNamesNoDedupe(p, ign) ==
  LET kept == SelectSeq(allBranches, LAMBDA b : b \notin ign /\ b # Trunk)
  IN [i \in 1..Len(kept) |-> getStackBaseBranch(p, kept[i])]

allStackBaseNames(p, ign) ==
  LET kept == SelectSeq(allBranches, LAMBDA b : b \notin ign /\ b # Trunk)
  IN Unique([i \in 1..Len(kept) |-> getStackBaseBranch(p, kept[i])])

allStacksFromTrunk(p, ign) ==
  LET baseBranches == allStackBaseNames(p, ign)
  IN [kind |-> "stacks",
      stacks |-> [i \in 1..Len(baseBranches) |->
                    fullStackFromBranch(p, ign, baseBranches[i])]]

InitStack ==
  /\ parent \in ParentMaps
  /\ ignored \in SUBSET NonTrunk
  /\ currentBranch = Trunk
  /\ staged = FALSE
  /\ unstaged = FALSE
  /\ rev = [b \in Branch |-> 0]
  /\ prInfo = [b \in Branch |-> EmptyPrInfo]
  /\ cmd = "stack"
  /\ opts = NoVal
  /\ interactive = FALSE
  /\ stdoutIsTTY = TRUE
  /\ pc = "stack_call"
  /\ error = "none"
  /\ failedAt = "none"
  /\ log = <<>>
  /\ restackQueue = <<>>
  /\ start = [staged |-> FALSE, unstaged |-> FALSE, prInfo |-> prInfo]
  /\ SubmitIdle
  /\ StackIdle

StackFrame ==
  UNCHANGED <<repoVars, cmd, opts, interactive, stdoutIsTTY, error, failedAt, log,
              restackQueue, start, submitVars, arena, worklist, expanded>>

CallAllStacksFromTrunk ==
  /\ pc = "stack_call"
  /\ request' = [op |-> "allStacksFromTrunk", branch |-> NoBranch]
  /\ result' = allStacksFromTrunk(parent, ignored)
  /\ pc' = "done"
  /\ StackFrame

CallUpstackWithParents ==
  /\ pc = "stack_call"
  /\ \E b \in Branch :
       /\ request' = [op |-> "upstackInclusiveFromBranchWithParents", branch |-> b]
       /\ result' = upstackInclusiveFromBranchWithParents(parent, ignored, b)
  /\ pc' = "done"
  /\ StackFrame

CallUpstackWithoutParents ==
  /\ pc = "stack_call"
  /\ \E b \in Branch :
       /\ request' = [op |-> "upstackInclusiveFromBranchWithoutParents", branch |-> b]
       /\ result' = [kind |-> "stack",
                     stack |-> upstackInclusiveFromBranchWithoutParents(parent, ignored, b)]
  /\ pc' = "done"
  /\ StackFrame

NextStack ==
  \/ CallAllStacksFromTrunk
  \/ CallUpstackWithParents
  \/ CallUpstackWithoutParents

SpecStack == InitStack /\ [][NextStack]_vars

(***************************************************************************)
(* upstackInclusiveFromBranchWithoutParents, one loop turn at a time       *)
(***************************************************************************)
\* The most nodes an expansion creates: the source and every other branch.
MaxArena == NumBranches + 1

ExpandFrame ==
  UNCHANGED <<repoVars, cmd, opts, interactive, stdoutIsTTY, error, failedAt, log,
              restackQueue, start, submitVars>>

\* abstract_stack_builder.ts 34-40: the source node, alone on the worklist.
ExpandEnter ==
  /\ pc = "stack_call"
  /\ \E b \in Branch :
       /\ request' = [op |-> "upstackInclusiveFromBranchWithoutParents", branch |-> b]
       /\ arena' = <<Node(b, <<>>, <<>>)>>
  /\ worklist' = <<1>>
  /\ expanded' = <<>>
  /\ pc' = "expanding"
  /\ UNCHANGED result
  /\ ExpandFrame

ExpandStepNoPop ==
  /\ pc = "expanding"
  /\ worklist # <<>>
  /\ Len(expanded) < MaxArena
  /\ LET curNode == worklist[Len(worklist)]
         kids == getChildrenForBranch(parent, ignored, arena[curNode].branch)
         ids  == [i \in 1..Len(kids) |-> Len(arena) + i]
         made == [i \in 1..Len(kids) |-> Node(kids[i], <<curNode>>, <<>>)]
     IN /\ arena' = [arena EXCEPT ![curNode].children = ids] \o made
        /\ worklist' = worklist \o ids
        /\ expanded' = Append(expanded, curNode)
  /\ pc' = "expanding"
  /\ UNCHANGED <<request, result>>
  /\ ExpandFrame

\* abstract_stack_builder.ts 41-52: one turn of the do-while loop: pop the
\* last node, give it a node per child, push those.
ExpandStep ==
  /\ pc = "expanding"
  /\ worklist # <<>>
  /\ Len(expanded) < MaxArena
  /\ LET curNode == worklist[Len(worklist)]
         rest == SubSeq(worklist, 1, Len(worklist) - 1)
         kids == getChildrenForBranch(parent, ignored, arena[curNode].branch)
         ids  == [i \in 1..Len(kids) |-> Len(arena) + i]
         made == [i \in 1..Len(kids) |-> Node(kids[i], <<curNode>>, <<>>)]
     IN /\ arena' = [arena EXCEPT ![curNode].children = ids] \o made
        /\ worklist' = rest \o ids
        /\ expanded' = Append(expanded, curNode)
  /\ pc' = "expanding"
  /\ UNCHANGED <<request, result>>
  /\ ExpandFrame

\* abstract_stack_builder.ts 52-54: the worklist is empty, the Stack is returned.
ExpandReturn ==
  /\ pc = "expanding"
  /\ worklist = <<>>
  /\ result' = [kind |-> "stack", stack |-> [source |-> 1, nodes |-> arena]]
  /\ pc' = "done"
  /\ UNCHANGED <<request, arena, worklist, expanded>>
  /\ ExpandFrame

NextExpand ==
  \/ ExpandEnter
  \/ ExpandStep
  \/ ExpandReturn

\* The loop is synchronous code of a single control flow: it keeps running
\* until it returns.
SpecExpand == InitStack /\ [][NextExpand]_vars /\ WF_vars(NextExpand)

(***************************************************************************)
(* Claims about the stack builder (checked under SpecStack)                *)
(***************************************************************************)
BranchesOf(stack) == {stack.nodes[i].branch : i \in 1..Len(stack.nodes)}

SourceBranch(stack) == stack.nodes[stack.source].branch

\* The data model's forest invariant: no cycle, and the ignored branches are
\* roots (they are nobody's child).
ForestInvariant ==
  /\ Acyclic(parent)
  /\ \A b \in ignored : parent[b] = NoBranch

\* C7: when the full stack computed for the requested branch holds no node of
\* that branch, upstackInclusiveFromBranchWithParents signals a fault; it
\* never returns a Stack whose source is another branch.
C7_MissingSourceSignalled ==
  (pc = "done" /\ request.op = "upstackInclusiveFromBranchWithParents") =>
     IF request.branch \in BranchesOf(fullStackFromBranch(parent, ignored, request.branch))
       THEN result.kind = "stack" /\ SourceBranch(result.stack) = request.branch
       ELSE result.kind = "error"

\* C10: allStacksFromTrunk yields one stack per distinct stack base of the
\* branches that are neither ignored nor the trunk, no base twice; under the
\* forest invariant the stacks are pairwise disjoint and every such branch
\* is the branch of exactly one node of exactly one stack.
C10_StacksPartitionBranches ==
  (pc = "done" /\ request.op = "allStacksFromTrunk") =>
     LET stacks == result.stacks
         Kept   == NonTrunk \ ignored
         Bases  == {b \in NonTrunk :
                      \E k \in Kept :
                         /\ Reaches(parent, k, b, NumBranches)
                         /\ parent[b] \in {NoBranch, Trunk}}
         Holds(b) == {<<i, n>> \in (1..Len(stacks)) \X (1..(NumBranches + 1)) :
                        /\ n <= Len(stacks[i].nodes)
                        /\ stacks[i].nodes[n].branch = b}
     IN /\ result.kind = "stacks"
        /\ {SourceBranch(stacks[i]) : i \in 1..Len(stacks)} = Bases
        /\ \A i, j \in 1..Len(stacks) :
             SourceBranch(stacks[i]) = SourceBranch(stacks[j]) => i = j
        /\ ForestInvariant =>
             /\ \A i, j \in 1..Len(stacks) :
                  i # j => BranchesOf(stacks[i]) \cap BranchesOf(stacks[j]) = {}
             /\ \A b \in Kept : Cardinality(Holds(b)) = 1

C10_Witness ==
  /\ pc = "done"
  /\ request.op = "allStacksFromTrunk"
  /\ ForestInvariant
  /\ ignored # {}
  /\ Len(result.stacks) >= 2
  /\ \E i \in 1..Len(result.stacks) : Len(result.stacks[i].nodes) >= 2

RECURSIVE RootOf(_, _, _)
\* The node reached from n by following parents links (0 when they do not end).
RootOf(stack, n, fuel) ==
  IF stack.nodes[n].parents = <<>> THEN n
  ELSE IF fuel = 0 THEN 0
  ELSE RootOf(stack, stack.nodes[n].parents[1], fuel - 1)

\* C14: when the requested branch is in its full stack,
\* upstackInclusiveFromBranchWithParents returns the full stack, nodes and
\* links untouched, with source at the one node of the requested branch; the
\* search pops a node only after its parent and ends at that node; from the
\* source the parents links lead up to the stack base.
C14_SourcePromotedInFullStack ==
  (/\ pc = "done"
   /\ request.op = "upstackInclusiveFromBranchWithParents"
   /\ request.branch \in BranchesOf(fullStackFromBranch(parent, ignored, request.branch)))
  =>
     LET full  == fullStackFromBranch(parent, ignored, request.branch)
         st    == result.stack
         trace == VisitOrder(full, <<full.source>>, request.branch)
     IN /\ result.kind = "stack"
        /\ st.nodes = full.nodes
        /\ SourceBranch(st) = request.branch
        /\ \A i \in 1..Len(st.nodes) :
             st.nodes[i].branch = request.branch => i = st.source
        /\ trace[Len(trace)] = st.source
        /\ \A i \in 1..Len(trace) :
             \/ trace[i] = full.source
             \/ \E j \in 1..(i - 1) : <<trace[j]>> = full.nodes[trace[i]].parents
        /\ RootOf(st, st.source, NumBranches) = full.source
        /\ SourceBranch(full) = getStackBaseBranch(parent, request.branch)
        /\ \A i \in 1..Len(st.nodes) :
             /\ \A k \in 1..Len(st.nodes[i].children) :
                  st.nodes[st.nodes[i].children[k]].parents = <<i>>
             /\ st.nodes[i].parents # <<>> =>
                  parent[st.nodes[i].branch] = st.nodes[st.nodes[i].parents[1]].branch

C14_Witness ==
  /\ pc = "done"
  /\ request.op = "upstackInclusiveFromBranchWithParents"
  /\ result.kind = "stack"
  /\ SourceBranch(result.stack) = request.branch
  /\ result.stack.nodes[result.stack.source].parents # <<>>
  /\ Len(result.stack.nodes) = NumBranches
  /\ Len(VisitOrder(fullStackFromBranch(parent, ignored, request.branch), <<1>>,
                    request.branch)) = NumBranches

\* The branches reachable from b through child links.
Descendants(b) ==
  {c \in NonTrunk \ {b} : Reaches(parent, parent[c], b, NumBranches)}

\* C15: under the forest invariant the Stack built by
\* upstackInclusiveFromBranchWithoutParents has the requested branch at its
\* source with no parents, one node for it and for each of its descendants
\* and no other node, every other node's parents list is the one node of its
\* parent branch (which lists it as a child), and the parents links of every
\* node lead to the source, so no node is its own descendant.
C15_ParentlessStackShape ==
  (/\ pc = "done"
   /\ request.op = "upstackInclusiveFromBranchWithoutParents"
   /\ ForestInvariant)
  =>
     LET st == result.stack
         n  == Len(st.nodes)
     IN /\ result.kind = "stack"
        /\ SourceBranch(st) = request.branch
        /\ st.nodes[st.source].parents = <<>>
        /\ BranchesOf(st) = {request.branch} \cup Descendants(request.branch)
        /\ \A i, j \in 1..n : st.nodes[i].branch = st.nodes[j].branch => i = j
        /\ \A i \in (1..n) \ {st.source} :
             /\ Len(st.nodes[i].parents) = 1
             /\ st.nodes[i].parents[1] \in 1..n
             /\ st.nodes[st.nodes[i].parents[1]].branch = parent[st.nodes[i].branch]
             /\ i \in Range(st.nodes[st.nodes[i].parents[1]].children)
        /\ \A i \in 1..n :
             /\ RootOf(st, i, n) = st.source
             /\ \A k \in 1..Len(st.nodes[i].children) :
                  st.nodes[st.nodes[i].children[k]].parents = <<i>>

C15_Witness ==
  /\ pc = "done"
  /\ request.op = "upstackInclusiveFromBranchWithoutParents"
  /\ ForestInvariant
  /\ ignored # {}
  /\ parent[request.branch] \in NonTrunk
  /\ Len(result.stack.nodes) >= 2
  /\ result.stack.nodes[result.stack.source].parents = <<>>

\* Every node created so far is expanded or waits on the worklist, none twice.
ExpandedAtMostOnce ==
  /\ \A i, j \in 1..Len(expanded) : expanded[i] = expanded[j] => i = j
  /\ \A i, j \in 1..Len(worklist) : worklist[i] = worklist[j] => i = j
  /\ Range(expanded) \cap Range(worklist) = {}
  /\ Range(expanded) \cup Range(worklist) = 1..Len(arena)

ExpansionDone ==
  /\ pc = "done"
  /\ worklist = <<>>
  /\ Range(expanded) = 1..Len(arena)
  /\ Len(expanded) = Len(arena)
  /\ result.stack =
       upstackInclusiveFromBranchWithoutParents(parent, ignored, request.branch)

\* C13 (checked under SpecExpand): over an acyclic parent relation the
\* worklist loop of upstackInclusiveFromBranchWithoutParents expands no node
\* twice, never runs into the size cap, and always reaches its return with
\* the worklist empty and every node it created expanded exactly once.
C13_ExpansionTerminates ==
  /\ [](pc = "expanding" => ExpandedAtMostOnce /\ Len(arena) <= MaxArena)
  /\ [](pc = "expanding" /\ worklist # <<>> => Len(expanded) < MaxArena)
  /\ (pc = "expanding") ~> ExpansionDone

C13_Witness ==
  /\ ExpansionDone
  /\ Len(expanded) = MaxArena
  /\ \E b \in NonTrunk : parent[b] \in NonTrunk

(***************************************************************************)
(* PR reconciliation: getPRInfoForBranches, getPRAction, getPRCreationInfo *)
(*                                                                         *)
(* An await is a state of its own: the prompt of selectBranch, the return *)
(* of selectBranch to getPRAction and of getPRAction to its caller, the    *)
(* calls of getPRTitle, getPRBody and getReviewers, the prompt of          *)
(* getPRDraftStatus, the return of getPRCreationInfo to its caller. What   *)
(* the code reads before an await and uses after it is kept in last and    *)
(* entry. Nothing else runs while the run waits (one control flow under    *)
(* the repository lock).                                                   *)
(* args.reviewers is only handed on to getReviewers, whose outcome is      *)
(* drawn here; it is not part of opts. The log records the splog.info and  *)
(* splog.newline calls, the prompts of selectBranch, the exceptions of the *)
(* gathering calls and the store writes.                                   *)
(***************************************************************************)
MaxTargets == 2

Bool3(b) == IF b THEN "true" ELSE "false"

calculatedStatusDraftInverted(parentBranchName, info, updateOnly, draft, publish, matchesRemote) ==
  IF info.number = NoNumber
    THEN IF updateOnly THEN "NOOP" ELSE "CREATE"
  ELSE IF parentBranchName # info.base THEN "RESTACK"
  ELSE IF ~matchesRemote THEN "CHANGE"
  ELSE IF draft /\ info.isDraft = "false" THEN "DRAFT"
  ELSE IF publish /\ info.isDraft = "true" THEN "PUBLISH"
  ELSE "NOOP"

\* prepare_branches.ts 116-129
calculatedStatus(parentBranchName, info, updateOnly, draft, publish, matchesRemote) ==
  IF info.number = NoNumber
    THEN IF updateOnly THEN "NOOP" ELSE "CREATE"
  ELSE IF parentBranchName # info.base THEN "RESTACK"
  ELSE IF ~matchesRemote THEN "CHANGE"
  ELSE IF draft /\ info.isDraft # "true" THEN "DRAFT"
  ELSE IF publish /\ info.isDraft # "false" THEN "PUBLISH"
  ELSE "NOOP"

\* branchMatchesRemote is consulted only when the first two tests fall through.
ConsultsRemote(parentBranchName, info) ==
  info.number # NoNumber /\ parentBranchName = info.base

ShouldAskAlways(select, calculated) == select

\* prepare_branches.ts 132-134: selectBranch is reached only then.
ShouldAsk(select, calculated) == select /\ calculated # "NOOP"

ReturnsActionIgnoringDryRun(dryRun, status) == status # "NOOP"

\* prepare_branches.ts 149-150: whether getPRAction returns an action.
ReturnsAction(dryRun, status) == ~(dryRun \/ status = "NOOP")

\* prepare_branches.ts 149-156
ActionOf(b, info) ==
  [branchName |-> b, update |-> info.number # NoNumber, prNumber |-> info.number]

\* metaCache.upsertPrInfo(branch, partial): the fields given replace the
\* stored ones, the others stay.
upsertPrInfo(store, b, partial) ==
  [store EXCEPT ![b] =
     [@ EXCEPT !.title = IF partial.title # NoVal THEN partial.title ELSE @,
               !.body  = IF partial.body # NoVal THEN partial.body ELSE @]]

\* What getPRTitle / getPRBody can return: the text stored by an earlier run,
\* or a new one.
TitleValues(info) == {"new title"} \cup ({info.title} \ {NoVal})
BodyValues(info) == {"new body"} \cup ({info.body} \ {NoVal})

GatherErrors == {"Killed", "ExitFailed"}

EntryHeadStoredBase(b) ==
  [head |-> b, headSha |-> rev[b], base |-> prInfo[b].base, baseSha |-> rev[parent[b]]]

\* prepare_branches.ts 63-70: what the entry of branch b starts with, read
\* before getPRCreationInfo is called.
EntryHead(b) ==
  [head |-> b, headSha |-> rev[b], base |-> parent[b], baseSha |-> rev[parent[b]]]

\* prepare_branches.ts 66-90: the entry pushed (an update entry has no title,
\* body or reviewers).
Entry(h, action, number, draft, title, body, reviewers) ==
  [head |-> h.head, headSha |-> h.headSha, base |-> h.base, baseSha |-> h.baseSha,
   action |-> action, prNumber |-> number, draft |-> draft,
   title |-> title, body |-> body, reviewers |-> reviewers]

\* What getReviewers can return.
ReviewerLists == {<<>>, <<"r1">>}

\* Stored PR info of a branch no PR was created for (an earlier run may have
\* left a title, or a title and a body), and of a branch with a PR. The PR
\* of branch b has number b.
UnsubmittedInfos ==
  {[EmptyPrInfo EXCEPT !.title = tb[1], !.body = tb[2]] :
     tb \in {<<NoVal, NoVal>>, <<"old title", NoVal>>, <<"old title", "old body">>}}

SubmittedInfos ==
  [number : {Trunk}, base : Branch \cup {NoBranch}, isDraft : {"true", "false", NoVal},
   title : {"old title"}, body : {"old body"}]

\* A few of them, for runs over several branches.
SomeInfos ==
  {EmptyPrInfo,
   [EmptyPrInfo EXCEPT !.title = "old title"],
   [number |-> Trunk, base |-> Trunk, isDraft |-> "false",
    title |-> "old title", body |-> "old body"],
   [number |-> Trunk, base |-> Trunk, isDraft |-> "true",
    title |-> "old title", body |-> "old body"]}

InfoOf(b, t) == [t EXCEPT !.number = IF @ = NoNumber THEN NoNumber ELSE b]

\* args.branchNames: one branch, or several in ascending or descending name
\* order.
Targets ==
  {<<b>> : b \in NonTrunk} \cup
  UNION {{[i \in 1..n |-> i], [i \in 1..n |-> n + 1 - i]} : n \in 2..MaxTargets}

\* The branches that are not submitted sit on the trunk with nothing stored;
\* of several submitted branches each is untracked, on the trunk or on the
\* branch submitted before it.
InitSubmitStore ==
  LET names == opts.branchNames
      T == Range(names)
      Parents(i) == IF Len(names) = 1 THEN Branch \cup {NoBranch}
                    ELSE {NoBranch, Trunk} \cup {names[j] : j \in {i - 1} \cap (1..Len(names))}
      Infos == IF Len(names) = 1
                 THEN UnsubmittedInfos \cup SubmittedInfos
                 ELSE SomeInfos
  IN /\ \E g \in [1..Len(names) -> Branch \cup {NoBranch}] :
          /\ \A i \in 1..Len(names) : g[i] \in Parents(i)
          /\ parent = [b \in Branch |->
                         IF b \in T THEN g[CHOOSE i \in 1..Len(names) : names[i] = b]
                         ELSE IF b = Trunk THEN NoBranch ELSE Trunk]
     /\ Acyclic(parent)
     /\ \E f \in [T -> Infos] :
          prInfo = [b \in Branch |->
                      IF b \in T THEN InfoOf(b, f[b]) ELSE EmptyPrInfo]

InitSubmit ==
  /\ cmd = "submit"
  /\ opts \in [branchNames : Targets, draft : BOOLEAN, publish : BOOLEAN,
               updateOnly : BOOLEAN, dryRun : BOOLEAN, select : BOOLEAN,
               editPRFieldsInline : BOOLEAN]
  /\ InitSubmitStore
  /\ ignored = {}
  /\ currentBranch = opts.branchNames[Len(opts.branchNames)]
  /\ staged = FALSE
  /\ unstaged = FALSE
  /\ rev = [b \in Branch |-> 0]
  /\ interactive \in BOOLEAN
  /\ stdoutIsTTY \in BOOLEAN
  /\ pc = "getPRAction"
  /\ error = "none"
  /\ failedAt = "none"
  /\ log = <<>>
  /\ restackQueue = <<>>
  /\ start = [staged |-> FALSE, unstaged |-> FALSE, prInfo |-> prInfo]
  /\ idx = 1
  /\ prActions = <<>>
  /\ submissionInfo = <<>>
  /\ submitInfo = [title |-> NoVal, body |-> NoVal]
  /\ last = NoLast
  /\ entry = NoEntry
  /\ StackIdle

SubmitFrame ==
  UNCHANGED <<parent, ignored, currentBranch, staged, unstaged, rev, cmd, opts,
              interactive, stdoutIsTTY, restackQueue, start, stackVars>>

\* prepare_branches.ts 138-157: the status line is printed and getPRAction
\* returns; the caller, awaiting it (45), has not resumed yet.
FinishGetPRAction(b, calc, status, asks, ans, m, num, lg) ==
  /\ last' = [branch |-> b, calculated |-> calc, status |-> status,
              asked |-> asks, answer |-> ans, matches |-> m, prNumber |-> num]
  /\ log' = Append(lg, Event("info", [branch |-> b, status |-> status]))
  /\ pc' = "push_action"
  /\ NoThrow
  /\ UNCHANGED <<prActions, idx>>

\* prepare_branches.ts 44-55 with getPRAction 107-157: one turn of the first
\* loop up to the await of selectBranch, or up to the return of getPRAction
\* when selectBranch is not called, given whether getParentPrecondition (110)
\* finds a parent.
GetPRActionFor(resolvable) ==
  /\ pc = "getPRAction"
  /\ LET b == opts.branchNames[idx]
     IN IF ~resolvable
          THEN /\ Throw("PreconditionsFailed", "getParentPrecondition")
               /\ UNCHANGED <<log, prActions, idx, last>>
          ELSE \E m \in IF ConsultsRemote(parent[b], prInfo[b]) THEN BOOLEAN ELSE {TRUE} :
                 LET calc == calculatedStatus(parent[b], prInfo[b], opts.updateOnly,
                                              opts.draft, opts.publish, m)
                 IN IF ShouldAsk(opts.select, calc)
                      THEN /\ last' = [branch |-> b, calculated |-> calc,
                                       status |-> "pending", asked |-> TRUE,
                                       answer |-> FALSE, matches |-> m,
                                       prNumber |-> prInfo[b].number]
                           /\ pc' = "selectBranch"
                           /\ NoThrow
                           /\ UNCHANGED <<log, prActions, idx>>
                      ELSE FinishGetPRAction(b, calc, calc, FALSE, FALSE, m,
                                             prInfo[b].number, log)
  /\ UNCHANGED <<prInfo, submissionInfo, submitInfo, entry>>
  /\ SubmitFrame

GetPRActionStep == GetPRActionFor(parent[opts.branchNames[idx]] # NoBranch)

\* prepare_branches.ts 160-171: the prompt is answered (a cancelled prompt
\* yields a falsy value, a decline) and selectBranch clears the prompt line
\* and returns; process.stdout has moveCursor and clearLine only when it is
\* a terminal, so otherwise the call of line 169 throws a TypeError.
\* getPRAction, awaiting it (134), has not resumed yet.
SelectBranchStep ==
  /\ pc = "selectBranch"
  /\ \E ans \in BOOLEAN :
       /\ log' = Append(log, Event("selectBranch",
                                   [branch |-> last.branch, answer |-> ans]))
       /\ IF stdoutIsTTY
            THEN /\ last' = [last EXCEPT !.answer = ans]
                 /\ pc' = "selected"
                 /\ NoThrow
            ELSE /\ Throw("TypeError", "selectBranch")
                 /\ UNCHANGED last
  /\ UNCHANGED <<prInfo, prActions, submissionInfo, submitInfo, idx, entry>>
  /\ SubmitFrame

\* prepare_branches.ts 131-157: getPRAction resumes with the answer, and
\* ends with the values read before the prompt.
StatusAfterSelect ==
  /\ pc = "selected"
  /\ FinishGetPRAction(last.branch, last.calculated,
                       IF last.answer THEN last.calculated ELSE "NOOP",
                       TRUE, last.answer, last.matches, last.prNumber, log)
  /\ UNCHANGED <<prInfo, submissionInfo, submitInfo, entry>>
  /\ SubmitFrame

\* prepare_branches.ts 45, 56-59: getPRInfoForBranches resumes with the action
\* getPRAction returned and pushes it; then the next turn of the first loop
\* or the start of the second.
PushAction ==
  /\ pc = "push_action"
  /\ LET acts == IF ReturnsAction(opts.dryRun, last.status)
                   THEN Append(prActions,
                               ActionOf(last.branch, [number |-> last.prNumber]))
                   ELSE prActions
     IN /\ prActions' = acts
        /\ IF idx < Len(opts.branchNames)
             THEN idx' = idx + 1 /\ pc' = "getPRAction"
             ELSE /\ idx' = 1
                  /\ pc' = IF acts = <<>> THEN "plan_end" ELSE "plan"
  /\ NoThrow
  /\ UNCHANGED <<prInfo, submissionInfo, submitInfo, last, entry, log>>
  /\ SubmitFrame

\* After an entry is pushed: the next turn of the second loop, or its end.
AdvancePlan ==
  IF idx < Len(prActions)
    THEN idx' = idx + 1 /\ pc' = "plan"
    ELSE idx' = idx /\ pc' = "plan_end"

\* prepare_branches.ts 62-90 and 189-200: one turn of the second loop up to
\* the await of getPRTitle (the whole turn for an update).
\* getParentPrecondition is asked again (63, and 195 for the inline line).
PlanEntryStep ==
  /\ pc = "plan"
  /\ LET a == prActions[idx]
         b == a.branchName
     IN IF parent[b] = NoBranch
          THEN /\ Throw("PreconditionsFailed", "getParentPrecondition")
               /\ UNCHANGED <<submissionInfo, submitInfo, idx, entry, log>>
        ELSE IF a.update
          THEN /\ submissionInfo' =
                    Append(submissionInfo,
                           Entry(EntryHead(b), "update", a.prNumber,
                                 IF opts.draft THEN "true"
                                 ELSE IF opts.publish THEN "false" ELSE NoVal,
                                 NoVal, NoVal, NoVal))
               /\ AdvancePlan
               /\ NoThrow
               /\ UNCHANGED <<submitInfo, entry, log>>
          ELSE /\ entry' = EntryHead(b)
               /\ log' = IF opts.editPRFieldsInline
                           THEN log \o <<Event("newline", NoVal),
                                         Event("info", [branch |-> b, base |-> parent[b]])>>
                           ELSE log
               /\ submitInfo' = [title |-> NoVal, body |-> NoVal]
               /\ pc' = "creation_title"
               /\ NoThrow
               /\ UNCHANGED <<submissionInfo, idx>>
  /\ UNCHANGED <<prInfo, prActions, last>>
  /\ SubmitFrame

\* A gathering call that throws inside the try block: the exception is in
\* flight while the finally block runs.
ThrowInTry(e, call) ==
  /\ error' = e
  /\ failedAt' = call
  /\ log' = Append(log, Event("throw", e))
  /\ pc' = "creation_finally"

\* prepare_branches.ts 203-209
CreationTitle ==
  /\ pc = "creation_title"
  /\ \/ \E t \in TitleValues(prInfo[prActions[idx].branchName]) :
          /\ submitInfo' = [submitInfo EXCEPT !.title = t]
          /\ pc' = "creation_body"
          /\ NoThrow
          /\ UNCHANGED log
     \/ \E e \in GatherErrors :
          /\ ThrowInTry(e, "getPRTitle")
          /\ UNCHANGED submitInfo
  /\ UNCHANGED <<prInfo, prActions, submissionInfo, idx, last, entry>>
  /\ SubmitFrame

\* prepare_branches.ts 211-217
CreationBody ==
  /\ pc = "creation_body"
  /\ \/ \E t \in BodyValues(prInfo[prActions[idx].branchName]) :
          /\ submitInfo' = [submitInfo EXCEPT !.body = t]
          /\ pc' = "creation_finally"
          /\ NoThrow
          /\ UNCHANGED log
     \/ \E e \in GatherErrors :
          /\ ThrowInTry(e, "getPRBody")
          /\ UNCHANGED submitInfo
  /\ UNCHANGED <<prInfo, prActions, submissionInfo, idx, last, entry>>
  /\ SubmitFrame

CreationFinallyFirstBranch ==
  /\ pc = "creation_finally"
  /\ prInfo' = upsertPrInfo(prInfo, prActions[1].branchName, submitInfo)
  /\ log' = Append(log, Event("upsertPrInfo",
              [branch |-> prActions[1].branchName, info |-> submitInfo]))
  /\ pc' = IF error = "none" THEN "creation_rest" ELSE "failed"
  /\ UNCHANGED <<error, failedAt, prActions, submissionInfo, submitInfo, idx, last,
                 entry>>
  /\ SubmitFrame

CreationFinallyOnSuccessOnly ==
  /\ pc = "creation_finally"
  /\ IF error = "none"
       THEN /\ prInfo' = upsertPrInfo(prInfo, prActions[idx].branchName, submitInfo)
            /\ log' = Append(log, Event("upsertPrInfo",
                        [branch |-> prActions[idx].branchName, info |-> submitInfo]))
            /\ pc' = "creation_rest"
       ELSE /\ pc' = "failed"
            /\ UNCHANGED <<prInfo, log>>
  /\ UNCHANGED <<error, failedAt, prActions, submissionInfo, submitInfo, idx, last,
                 entry>>
  /\ SubmitFrame

\* prepare_branches.ts 218-221: the finally block, then the exception in
\* flight (if any) goes on.
CreationFinally ==
  /\ pc = "creation_finally"
  /\ prInfo' = upsertPrInfo(prInfo, prActions[idx].branchName, submitInfo)
  /\ log' = Append(log, Event("upsertPrInfo",
              [branch |-> prActions[idx].branchName, info |-> submitInfo]))
  /\ pc' = IF error = "none" THEN "creation_rest" ELSE "failed"
  /\ UNCHANGED <<error, failedAt, prActions, submissionInfo, submitInfo, idx, last,
                 entry>>
  /\ SubmitFrame

\* What the turn holds once getPRCreationInfo has its reviewers (and its
\* draft status).
WithReviewers(e, rv) ==
  [head |-> e.head, headSha |-> e.headSha, base |-> e.base, baseSha |-> e.baseSha,
   reviewers |-> rv]

WithDraft(e, d) ==
  [head |-> e.head, headSha |-> e.headSha, base |-> e.base, baseSha |-> e.baseSha,
   reviewers |-> e.reviewers, draft |-> d]

\* prepare_branches.ts 223-238: getReviewers answers; the draft status
\* follows from the flags and getPRCreationInfo returns, or getPRDraftStatus
\* is awaited.
CreationRest ==
  /\ pc = "creation_rest"
  /\ \/ /\ Throw("ExitFailed", "getReviewers")
        /\ UNCHANGED entry
     \/ \E rv \in ReviewerLists :
          /\ NoThrow
          /\ IF opts.publish
               THEN entry' = WithDraft(WithReviewers(entry, rv), "false") /\ pc' = "creation_push"
             ELSE IF opts.draft \/ ~interactive
               THEN entry' = WithDraft(WithReviewers(entry, rv), "true") /\ pc' = "creation_push"
             ELSE entry' = WithReviewers(entry, rv) /\ pc' = "creation_draft"
  /\ UNCHANGED <<prInfo, prActions, submissionInfo, submitInfo, idx, last, log>>
  /\ SubmitFrame

\* prepare_branches.ts 231-238: the prompt of getPRDraftStatus is answered or
\* cancelled, and getPRCreationInfo returns.
CreationDraftStatus ==
  /\ pc = "creation_draft"
  /\ \/ \E d \in BOOLEAN :
          /\ entry' = WithDraft(entry, Bool3(d))
          /\ pc' = "creation_push"
          /\ NoThrow
     \/ /\ Throw("Killed", "getPRDraftStatus")
        /\ UNCHANGED entry
  /\ UNCHANGED <<prInfo, prActions, submissionInfo, submitInfo, idx, last, log>>
  /\ SubmitFrame

\* prepare_branches.ts 66-90: getPRInfoForBranches resumes with what
\* getPRCreationInfo returned (79) and pushes the create entry.
PushCreate ==
  /\ pc = "creation_push"
  /\ submissionInfo' =
       Append(submissionInfo,
              Entry(entry, "create", NoNumber, entry.draft, submitInfo.title,
                    submitInfo.body, entry.reviewers))
  /\ entry' = NoEntry
  /\ AdvancePlan
  /\ NoThrow
  /\ UNCHANGED <<prInfo, prActions, submitInfo, last, log>>
  /\ SubmitFrame

\* prepare_branches.ts 92-93
ReturnPlan ==
  /\ pc = "plan_end"
  /\ log' = Append(log, Event("newline", NoVal))
  /\ pc' = "returned"
  /\ NoThrow
  /\ UNCHANGED <<prInfo, prActions, submissionInfo, submitInfo, idx, last, entry>>
  /\ SubmitFrame

\* The review gateway consumes the plan: it fails, or every entry's PR is
\* created or updated and the store records it.
SubmitPrs ==
  /\ pc = "returned"
  /\ submissionInfo # <<>>
  /\ \/ /\ Throw("ExitFailed", "submitPullRequest")
        /\ UNCHANGED prInfo
     \/ /\ prInfo' =
             [b \in Branch |->
                IF \E i \in 1..Len(submissionInfo) : submissionInfo[i].head = b
                  THEN LET e == submissionInfo[CHOOSE i \in 1..Len(submissionInfo) :
                                                 submissionInfo[i].head = b]
                       IN [prInfo[b] EXCEPT
                             !.number = IF e.action = "create" THEN b ELSE e.prNumber,
                             !.base = e.base,
                             !.isDraft = IF e.draft # NoVal THEN e.draft ELSE @]
                  ELSE prInfo[b]]
        /\ pc' = "done"
        /\ NoThrow
  /\ UNCHANGED <<prActions, submissionInfo, submitInfo, idx, last, log, entry>>
  /\ SubmitFrame

NextSubmit ==
  \/ GetPRActionStep
  \/ SelectBranchStep
  \/ StatusAfterSelect
  \/ PushAction
  \/ PlanEntryStep
  \/ CreationTitle
  \/ CreationBody
  \/ CreationFinally
  \/ CreationRest
  \/ CreationDraftStatus
  \/ PushCreate
  \/ ReturnPlan
  \/ SubmitPrs

SpecSubmit == InitSubmit /\ [][NextSubmit]_vars

(***************************************************************************)
(* Claims about the PR reconciliation (checked under SpecSubmit)           *)
(***************************************************************************)
\* The decision table of the PR reconciliation engine, row by row.
TableAction(known, updateOnly, baseMatches, contentMatches,
            draftRequested, publishRequested, alreadyDraft, alreadyPublished) ==
  IF ~known /\ updateOnly THEN "NOOP"
  ELSE IF ~known /\ ~updateOnly THEN "CREATE"
  ELSE IF known /\ ~baseMatches THEN "RESTACK"
  ELSE IF known /\ baseMatches /\ ~contentMatches THEN "CHANGE"
  ELSE IF draftRequested /\ ~alreadyDraft THEN "DRAFT"
  ELSE IF publishRequested /\ ~alreadyPublished THEN "PUBLISH"
  ELSE "NOOP"

\* C1: for every branch and every combination of the five inputs, the status
\* getPRAction calculates is the action of the decision table.
C1_StatusFollowsTable ==
  (cmd = "submit" /\ last.branch # NoBranch) =>
     LET info == start.prInfo[last.branch]
     IN last.calculated =
          TableAction(info.number # NoNumber, opts.updateOnly,
                      info.base = parent[last.branch], last.matches,
                      opts.draft, opts.publish,
                      info.isDraft = "true", info.isDraft = "false")

C1_Witness ==
  /\ cmd = "submit"
  /\ last.branch # NoBranch
  /\ last.calculated = "PUBLISH"
  /\ opts.draft /\ opts.publish
  /\ start.prInfo[last.branch].isDraft = "true"

CurBranch == prActions[idx].branchName

HasEntry(b) == \E i \in 1..Len(submissionInfo) : submissionInfo[i].head = b

\* C3: on every exit path of getPRCreationInfo the title and body obtained
\* for the branch are in the store: once the finally block has run (normal
\* continuation, or a failure of the title, body, reviewers or draft step),
\* and for every create entry of the plan, whatever fails later.
C3_GatheredTitleBodyStored ==
  cmd = "submit" =>
     /\ (\/ pc \in {"creation_rest", "creation_draft", "creation_push"}
         \/ pc = "failed" /\ failedAt \in {"getPRTitle", "getPRBody",
                                           "getReviewers", "getPRDraftStatus"})
           => /\ submitInfo.title # NoVal => prInfo[CurBranch].title = submitInfo.title
              /\ submitInfo.body # NoVal => prInfo[CurBranch].body = submitInfo.body
     /\ \A i \in 1..Len(submissionInfo) :
          submissionInfo[i].action = "create" =>
             /\ submissionInfo[i].title # NoVal
             /\ submissionInfo[i].body # NoVal
             /\ prInfo[submissionInfo[i].head].title = submissionInfo[i].title
             /\ prInfo[submissionInfo[i].head].body = submissionInfo[i].body

C3_Witness ==
  /\ cmd = "submit"
  /\ pc = "failed"
  /\ failedAt = "getPRBody"
  /\ error = "ExitFailed"
  /\ idx = 2
  /\ start.prInfo[CurBranch].title = "old title"
  /\ submitInfo.title = "new title"
  /\ prInfo[CurBranch].title = "new title"

\* C8: selectBranch is called for a branch exactly when selection is enabled
\* and the calculated status is not NOOP; a declined branch ends NOOP (once
\* getPRAction goes on after the answer), gets no action and no plan entry,
\* and its stored info stays as it was; the first loop writes nothing to the
\* store.
C8_SelectOnlyNonNoop ==
  cmd = "submit" =>
     /\ last.branch # NoBranch =>
          /\ last.asked <=> (opts.select /\ last.calculated # "NOOP")
          /\ last.status = "pending" <=>
               (pc \in {"selectBranch", "selected"} \/ failedAt = "selectBranch")
          /\ pc = "selectBranch" =>
               \A i \in 1..Len(log) : log[i].arg.branch # last.branch
          /\ last.status # "pending" =>
               /\ (last.asked /\ ~last.answer) => last.status = "NOOP"
               /\ ~(last.asked /\ ~last.answer) => last.status = last.calculated
     /\ ~opts.select => ~Did("selectBranch")
     /\ \A i \in 1..Len(log) :
          log[i].op = "selectBranch" =>
             /\ \A j \in 1..Len(log) :
                  (log[j].op = "selectBranch" /\ log[j].arg.branch = log[i].arg.branch)
                     => i = j
             /\ ~log[i].arg.answer =>
                  /\ \A k \in 1..Len(prActions) :
                       prActions[k].branchName # log[i].arg.branch
                  /\ ~HasEntry(log[i].arg.branch)
                  /\ prInfo[log[i].arg.branch] = start.prInfo[log[i].arg.branch]
     /\ (pc \in {"getPRAction", "selectBranch", "selected", "push_action"}
           \/ failedAt = "selectBranch")
          => prInfo = start.prInfo /\ submissionInfo = <<>>

C8_Witness ==
  /\ cmd = "submit"
  /\ pc = "done"
  /\ Len(opts.branchNames) = 2
  /\ Len(submissionInfo) = 1
  /\ \E i \in 1..Len(log) :
       /\ log[i].op = "selectBranch"
       /\ ~log[i].arg.answer
       /\ start.prInfo[log[i].arg.branch].number # NoNumber

KilledWhileGathering ==
  /\ cmd = "submit"
  /\ error = "Killed"
  /\ failedAt \in {"getPRTitle", "getPRBody"}

\* C9 as claimed: once the cancellation signal is raised during title or body
\* gathering the run unwinds without any further mutation: no upsertPrInfo
\* changes the store, which holds what it held when the signal was raised
\* (for the branch being gathered, what the run found).
C9_Original ==
  (KilledWhileGathering /\ pc = "failed") =>
     /\ prInfo[CurBranch] = start.prInfo[CurBranch]
     /\ \A i, j \in 1..Len(log) :
          (i < j /\ log[i].op = "throw" /\ log[j].op = "upsertPrInfo")
             => log[j].arg.info = [title |-> NoVal, body |-> NoVal]

\* C9 as amended: a cancellation during title or body gathering is followed
\* by exactly one store write, the upsertPrInfo of the finally block, which
\* stores for the current branch what was obtained before the cancellation
\* (the title, when the body prompt was cancelled; nothing, when the title
\* prompt was); nothing else changes: no plan entry is added, the other
\* fields and the other branches keep what was saved before.
C9_CancelWritesOnlyWhatWasObtained ==
  /\ (KilledWhileGathering /\ pc = "creation_finally") =>
        /\ log[Len(log)] = Event("throw", "Killed")
        /\ prInfo[CurBranch] = start.prInfo[CurBranch]
  /\ (KilledWhileGathering /\ pc = "failed") =>
        /\ Len(log) >= 2
        /\ log[Len(log) - 1] = Event("throw", "Killed")
        /\ log[Len(log)].op = "upsertPrInfo"
        /\ log[Len(log)].arg = [branch |-> CurBranch, info |-> submitInfo]
        /\ submitInfo.body = NoVal
        /\ submitInfo.title # NoVal <=> failedAt = "getPRBody"
        /\ prInfo[CurBranch] =
             [start.prInfo[CurBranch] EXCEPT
                !.title = IF submitInfo.title # NoVal THEN submitInfo.title ELSE @]
        /\ ~HasEntry(CurBranch)
        /\ Len(submissionInfo) = idx - 1
        /\ \A c \in Branch \ {CurBranch} :
             IF HasEntry(c) /\ start.prInfo[c].number = NoNumber
               THEN /\ prInfo[c].number = start.prInfo[c].number
                    /\ prInfo[c].base = start.prInfo[c].base
                    /\ prInfo[c].isDraft = start.prInfo[c].isDraft
               ELSE prInfo[c] = start.prInfo[c]

C9_Witness ==
  /\ KilledWhileGathering
  /\ pc = "failed"
  /\ failedAt = "getPRBody"
  /\ start.prInfo[CurBranch].title = "old title"
  /\ prInfo[CurBranch].title = "new title"
  /\ log[Len(log)].op = "upsertPrInfo"

\* The statuses getPRAction reported, one per branch classified, in order.
Reported ==
  SelectSeq(log, LAMBDA e : e.op = "info" /\ "status" \in DOMAIN e.arg)

\* The plan holds, in order, one entry per event of `want`: a create entry when
\* the branch had no PR number, else an update entry with the stored number;
\* its base is the branch's parent.
PlanMatches(want) ==
  /\ Len(submissionInfo) = Len(want)
  /\ \A i \in 1..Len(want) :
       LET e == submissionInfo[i]
           b == want[i].arg.branch
       IN /\ e.head = b
          /\ e.action = IF start.prInfo[b].number = NoNumber THEN "create" ELSE "update"
          /\ e.prNumber = start.prInfo[b].number
          /\ e.base = parent[b]

PlanReturned ==
  /\ cmd = "submit"
  /\ pc \in {"returned", "done"}

InInputOrder ==
  /\ Len(Reported) = Len(opts.branchNames)
  /\ \A i \in 1..Len(Reported) : Reported[i].arg.branch = opts.branchNames[i]

\* C16 as claimed: the plan returned has exactly one entry per target branch
\* whose final status is not NOOP, in input order, create or update by the
\* stored number, based on the actual parent.
C16_Original ==
  PlanReturned =>
     /\ InInputOrder
     /\ PlanMatches(SelectSeq(Reported, LAMBDA e : e.arg.status # "NOOP"))

\* C16 as amended: that holds when dryRun is not set; with dryRun the plan is
\* empty whatever the statuses are.
C16_PlanFollowsStatuses ==
  PlanReturned =>
     /\ InInputOrder
     /\ PlanMatches(IF opts.dryRun THEN <<>>
                    ELSE SelectSeq(Reported, LAMBDA e : e.arg.status # "NOOP"))

C16_Witness ==
  /\ PlanReturned
  /\ ~opts.dryRun
  /\ Len(opts.branchNames) = 2
  /\ opts.branchNames[1] > opts.branchNames[2]
  /\ Len(submissionInfo) = 2
  /\ submissionInfo[1].action = "create"
  /\ submissionInfo[2].action = "update"
  /\ submissionInfo[2].base # start.prInfo[submissionInfo[2].head].base

\* C17: in the plan, the update entry of a branch whose status is PUBLISH has
\* draft=false and that of a branch whose status is DRAFT has draft=true,
\* for every combination of the draft and publish flags.
C17_DraftFieldAgreesWithAction ==
  cmd = "submit" =>
     \A i \in 1..Len(submissionInfo) :
        \A k \in 1..Len(Reported) :
           (/\ submissionInfo[i].action = "update"
            /\ Reported[k].arg.branch = submissionInfo[i].head)
           => /\ Reported[k].arg.status = "PUBLISH" => submissionInfo[i].draft = "false"
              /\ Reported[k].arg.status = "DRAFT" => submissionInfo[i].draft = "true"

AnyUnresolvable ==
  \E i \in 1..Len(opts.branchNames) : parent[opts.branchNames[i]] = NoBranch

NothingGatheredOrStored ==
  /\ prInfo = start.prInfo
  /\ ~Did("upsertPrInfo")
  /\ ~Did("throw")
  /\ submissionInfo = <<>>
  /\ submitInfo = [title |-> NoVal, body |-> NoVal]
  /\ entry = NoEntry
  /\ \A i \in 1..Len(log) : log[i].op \in {"selectBranch", "info", "newline"}
  /\ pc \notin {"creation_title", "creation_body", "creation_finally",
                 "creation_rest", "creation_draft", "creation_push"}

\* C18: every target branch is classified before anything is gathered or
\* stored: while the first loop runs nothing is gathered or stored, and when
\* a target branch at any position has no parent the run never leaves the
\* first loop but by the precondition error, raised at the first such
\* branch, with the store untouched and no title or body asked for.
C18_ClassifiedBeforeGathering ==
  cmd = "submit" =>
     /\ pc \in {"getPRAction", "selectBranch", "selected", "push_action"} =>
          /\ NothingGatheredOrStored
          /\ Len(Reported) = IF pc = "push_action" THEN idx ELSE idx - 1
          /\ \A i \in 1..Len(log) : log[i].op # "newline"
     /\ failedAt = "getParentPrecondition" =>
          /\ pc = "failed"
          /\ error = "PreconditionsFailed"
          /\ parent[opts.branchNames[idx]] = NoBranch
          /\ \A i \in 1..(idx - 1) : parent[opts.branchNames[i]] # NoBranch
          /\ Len(Reported) = idx - 1
     /\ AnyUnresolvable =>
          /\ pc \in {"getPRAction", "selectBranch", "selected", "push_action", "failed"}
          /\ pc = "failed" => failedAt = "getParentPrecondition"
          /\ NothingGatheredOrStored

\* C19: with dryRun set no action is gathered, so the plan returned is empty
\* whatever status each branch got; no title or body is asked for, no
\* upsertPrInfo is made and the store stays as the run found it; the run ends
\* by returning after the first loop, or in the first loop by the
\* precondition error or the failure of selectBranch.
C19_DryRunPlansNothing ==
  (cmd = "submit" /\ opts.dryRun) =>
     /\ prActions = <<>>
     /\ NothingGatheredOrStored
     /\ pc \in {"getPRAction", "selectBranch", "selected", "push_action",
                "plan_end", "returned", "failed"}
     /\ pc = "failed" => failedAt \in {"getParentPrecondition", "selectBranch"}
     /\ pc \in {"plan_end", "returned"} => InInputOrder

C19_Witness ==
  /\ cmd = "submit"
  /\ opts.dryRun
  /\ pc = "returned"
  /\ Len(Reported) = 2
  /\ Reported[1].arg.status = "CREATE"
  /\ Reported[2].arg.status = "RESTACK"
  /\ submissionInfo = <<>>
  /\ prInfo = start.prInfo

====
